---- MODULE Spec2Model ----
(***************************************************************************)
(* Model of barrier_streamlit.py: one run of the script, top to bottom.    *)
(* The sidebar inputs are drawn in Init; every later statement is a step   *)
(* of the single control flow, tracked by pc.  Prices are integers in one  *)
(* common unit; the sampling grid of the payoff plot is built so that      *)
(* linspace is exact on them.  QuantLib is an external library: its        *)
(* constructors only store their arguments, and each pricing call either   *)
(* returns a number or raises, which ends the script.                      *)
(***************************************************************************)
EXTENDS Integers, Sequences, FiniteSets, TLC

\* Number of samples of the payoff plot (200 in the script, line 66).
GridSize == 3

\* Price unit: a spot that is a multiple of Unit has an exact linspace grid.
Unit == 2 * (GridSize - 1)

\* The evaluation date (ql.Date.todaysDate()); maturities are relative to it.
Today == 0

\* Sidebar inputs (lines 10-19): number_input accepts any number.
Spots == {0 - Unit, 0, Unit, 2 * Unit}
Strikes == {Unit - 1, Unit + 1}
Barriers == {Unit, (3 * Unit) \div 2}
Vols == {0 - 1, 1}
OptionTypes == {"Call", "Put"}
BarrierTypes == {"Up-Out", "Up-In", "Down-Out", "Down-In"}
Maturities == {Today - 1, Today, Today + 1}

\* Numbers a pricing call of the engine may return.
NPVVals == {0, 3}
GreekVals == {1, 2}

GreekNames == {"delta", "gamma", "vega", "theta", "rho"}

VARIABLES
    spot, strike, barrier, vol, option_type, barrier_type_str, maturity,
    pc,            \* the statement the script is at
    process,       \* <<>> or <<the BlackScholesMertonProcess>>
    option,        \* <<>> or <<the BarrierOption>>
    engine_set,    \* option.setPricingEngine was called
    price, delta, gamma, vega, theta, rho,
    calls,         \* the engine methods called so far, in order
    returned,      \* what each engine method that returned gave back
    shown,         \* the values written to the page (lines 58-63)
    S, payoff_vals,
    it,            \* position of the for loop's iterator in S
    knocked_out,
    plotted

vars == <<spot, strike, barrier, vol, option_type, barrier_type_str, maturity,
          pc, process, option, engine_set, price, delta, gamma, vega, theta,
          rho, calls, returned, shown, S, payoff_vals, it, knocked_out, plotted>>

inputs == <<spot, strike, barrier, vol, option_type, barrier_type_str, maturity>>
greeks == <<delta, gamma, vega, theta, rho>>
plot == <<S, payoff_vals, it, knocked_out, plotted>>

----------------------------------------------------------------------------
\* Pure helpers of the script.

Max(a, b) == IF a >= b THEN a ELSE b

\* The selectbox strings, as token sequences, for Python's substring test.
Tokens(str) ==
    CASE str = "Up-Out" -> <<"Up", "-", "Out">>
      [] str = "Up-In" -> <<"Up", "-", "In">>
      [] str = "Down-Out" -> <<"Down", "-", "Out">>
      [] str = "Down-In" -> <<"Down", "-", "In">>

\* Python's `needle in hay` on strings: hay has a contiguous run equal to needle.
Contains(needle, hay) ==
    \E k \in 0..(Len(hay) - Len(needle)) :
        SubSeq(hay, k + 1, k + Len(needle)) = needle

\* np.linspace(start, stop, n): n evenly spaced samples, both ends included.
Linspace(start, stop, n) ==
    [k \in 1..n |-> start + ((k - 1) * (stop - start)) \div (n - 1)]

\* barrier_map[barrier_type_str] (lines 34-40).
barrier_map(str) ==
    CASE str = "Up-Out" -> "UpOut"
      [] str = "Up-In" -> "UpIn"
      [] str = "Down-Out" -> "DownOut"
      [] str = "Down-In" -> "DownIn"

\* ql.Option.Call if option_type == "Call" else ql.Option.Put (line 41).
ql_option_type(t) == IF t = "Call" THEN "ql.Call" ELSE "ql.Put"

\* Variant: the flag is carried over from the previous sample.
KnockResetSticky(prev) == prev

\* The knock test of one sample (lines 70-74), from the flag's value at the
\* top of the loop body.
KnockReset(prev) == FALSE

\* Variant: the barrier itself is not knocked (strict comparisons).
KnockTestStrict(k, str, s, b) ==
    LET k1 == IF Contains(Tokens("Up-Out"), Tokens(str)) /\ s > b THEN TRUE ELSE k
        k2 == IF Contains(Tokens("Down-Out"), Tokens(str)) /\ s < b THEN TRUE ELSE k1
    IN  k2

\* Variant: the test looks at the direction only, so In kinds knock too.
KnockTestAnyKind(k, str, s, b) ==
    LET k1 == IF Contains(<<"Up">>, Tokens(str)) /\ s >= b THEN TRUE ELSE k
        k2 == IF Contains(<<"Down">>, Tokens(str)) /\ s <= b THEN TRUE ELSE k1
    IN  k2

KnockTest(k, str, s, b) ==
    LET k1 == IF Contains(Tokens("Up-Out"), Tokens(str)) /\ s >= b THEN TRUE ELSE k
        k2 == IF Contains(Tokens("Down-Out"), Tokens(str)) /\ s <= b THEN TRUE ELSE k1
    IN  k2

\* Variant: the intrinsic value is not floored at 0.
PayoffValNoFloor(k, t, s, K) ==
    IF k THEN 0
    ELSE IF t = "Call" THEN s - K ELSE K - s

\* The value appended for one sample (lines 76-82).
PayoffVal(k, t, s, K) ==
    IF k THEN 0
    ELSE IF t = "Call" THEN Max(s - K, 0) ELSE Max(K - s, 0)

\* The loop body as a function of the sample (lines 70-82).
payoffAt(str, t, K, b, s) ==
    PayoffVal(KnockTest(KnockReset(FALSE), str, s, b), t, s, K)

\* Variant: the engine is asked whatever the price.
GreekGuardAlways(p) == TRUE

\* `... if price != 0 else 0.0` (lines 50-54): whether the engine is asked.
GreekGuard(p) == p # 0

\* What `option.<greek>() if price != 0 else 0.0` can do: not call the engine
\* and give 0.0, or call it and get a number or an exception.
GreekOutcomes(p) ==
    IF GreekGuard(p)
    THEN {[called |-> TRUE, raised |-> TRUE, val |-> 0]}
         \cup {[called |-> TRUE, raised |-> FALSE, val |-> v] : v \in GreekVals}
    ELSE {[called |-> FALSE, raised |-> FALSE, val |-> 0]}

----------------------------------------------------------------------------
\* The state after the sidebar widgets have returned (lines 10-19).
Init ==
    /\ spot \in Spots
    /\ strike \in Strikes
    /\ barrier \in Barriers
    /\ vol \in Vols
    /\ option_type \in OptionTypes
    /\ barrier_type_str \in BarrierTypes
    /\ maturity \in Maturities
    /\ pc = "setup"
    /\ process = <<>>
    /\ option = <<>>
    /\ engine_set = FALSE
    /\ price = 0 /\ delta = 0 /\ gamma = 0 /\ vega = 0 /\ theta = 0 /\ rho = 0
    /\ calls = <<>>
    /\ returned = [m \in GreekNames \cup {"NPV"} |-> <<>>]
    /\ shown = <<>>
    /\ S = <<>>
    /\ payoff_vals = <<>>
    /\ it = 1
    /\ knocked_out = FALSE
    /\ plotted = <<>>

\* Lines 22-31: evaluation date, quote and curve handles, the process.
Setup ==
    /\ pc = "setup"
    /\ process' = <<[x0 |-> spot, vol |-> vol, evaluationDate |-> Today]>>
    /\ pc' = "construct"
    /\ UNCHANGED <<inputs, option, engine_set, price, greeks, calls, returned,
                   shown, plot>>

\* Lines 40-47: payoff, exercise, the BarrierOption and its pricing engine.
Construct ==
    /\ pc = "construct"
    /\ option' = <<[barrierType |-> barrier_map(barrier_type_str),
                    barrier |-> barrier,
                    rebate |-> 0,
                    payoff |-> [type |-> ql_option_type(option_type),
                                strike |-> strike],
                    exercise |-> maturity]>>
    /\ engine_set' = TRUE
    /\ pc' = "npv"
    /\ UNCHANGED <<inputs, process, price, greeks, calls, returned, shown, plot>>

\* Line 49: price = option.NPV(); an exception ends the script.
NPV ==
    /\ pc = "npv"
    /\ calls' = Append(calls, "NPV")
    /\ \/ /\ pc' = "raised"
          /\ UNCHANGED <<price, returned>>
       \/ \E v \in NPVVals :
             /\ price' = v
             /\ returned' = [returned EXCEPT !["NPV"] = <<v>>]
             /\ pc' = "delta"
    /\ UNCHANGED <<inputs, process, option, engine_set, greeks, shown, plot>>

\* One of lines 50-54 for the Greek `name`, whose new value is `new`.
GreekLine(name, old, new, here, next) ==
    /\ pc = here
    /\ \E out \in GreekOutcomes(price) :
          /\ calls' = IF out.called THEN Append(calls, name) ELSE calls
          /\ returned' = IF out.called /\ ~out.raised
                         THEN [returned EXCEPT ![name] = <<out.val>>]
                         ELSE returned
          /\ new = IF out.raised THEN old ELSE out.val
          /\ pc' = IF out.raised THEN "raised" ELSE next
    /\ UNCHANGED <<inputs, process, option, engine_set, price, shown, plot>>

Delta ==
    /\ GreekLine("delta", delta, delta', "delta", "gamma")
    /\ UNCHANGED <<gamma, vega, theta, rho>>

Gamma ==
    /\ GreekLine("gamma", gamma, gamma', "gamma", "vega")
    /\ UNCHANGED <<delta, vega, theta, rho>>

Vega ==
    /\ GreekLine("vega", vega, vega', "vega", "theta")
    /\ UNCHANGED <<delta, gamma, theta, rho>>

Theta ==
    /\ GreekLine("theta", theta, theta', "theta", "rho")
    /\ UNCHANGED <<delta, gamma, vega, rho>>

Rho ==
    /\ GreekLine("rho", rho, rho', "rho", "display")
    /\ UNCHANGED <<delta, gamma, vega, theta>>

\* Lines 57-63: the price and the Greeks are written to the page.
Display ==
    /\ pc = "display"
    /\ shown' = <<price, delta, gamma, vega, theta, rho>>
    /\ pc' = "linspace"
    /\ UNCHANGED <<inputs, process, option, engine_set, price, greeks, calls,
                   returned, plot>>

\* Lines 66-67: the sampling grid and the empty result list.
MakeGrid ==
    /\ pc = "linspace"
    /\ S' = Linspace(spot \div 2, (3 * spot) \div 2, GridSize)
    /\ payoff_vals' = <<>>
    /\ it' = 1
    /\ pc' = "loop"
    /\ UNCHANGED <<inputs, process, option, engine_set, price, greeks, calls,
                   returned, shown, knocked_out, plotted>>

\* Lines 69-82: one pass of the loop body, for the sample s = S[it].
LoopBody ==
    /\ pc = "loop"
    /\ it <= Len(S)
    /\ LET s == S[it]
           k == KnockTest(KnockReset(knocked_out), barrier_type_str, s, barrier)
       IN  /\ knocked_out' = k
           /\ payoff_vals' = Append(payoff_vals, PayoffVal(k, option_type, s, strike))
    /\ it' = it + 1
    /\ UNCHANGED <<inputs, pc, process, option, engine_set, price, greeks, calls,
                   returned, shown, S, plotted>>

\* Lines 84-88: the loop is exhausted and the figure is drawn.
Plot ==
    /\ pc = "loop"
    /\ it > Len(S)
    /\ plotted' = <<[x |-> S, y |-> payoff_vals]>>
    /\ pc' = "done"
    /\ UNCHANGED <<inputs, process, option, engine_set, price, greeks, calls,
                   returned, shown, S, payoff_vals, it, knocked_out>>

Next ==
    \/ Setup
    \/ Construct
    \/ NPV
    \/ Delta
    \/ Gamma
    \/ Vega
    \/ Theta
    \/ Rho
    \/ Display
    \/ MakeGrid
    \/ LoopBody
    \/ Plot

Spec == Init /\ [][Next]_vars

----------------------------------------------------------------------------
\* Properties.

\* The intrinsic value of the vanilla payoff at s.
Intrinsic(s) ==
    IF option_type = "Call" THEN Max(s - strike, 0) ELSE Max(strike - s, 0)

\* The samples the loop has handled so far.
Handled == 1..Len(payoff_vals)

\* s is at or beyond the barrier in the direction the barrier kind names.
BeyondBarrier(dir, s) ==
    \/ dir = "Up" /\ s >= barrier
    \/ dir = "Down" /\ s <= barrier

\* The knock-to-zero rule of the plot fires at s.
OutKnocked(s) ==
    \/ barrier_type_str = "Up-Out" /\ BeyondBarrier("Up", s)
    \/ barrier_type_str = "Down-Out" /\ BeyondBarrier("Down", s)

\* C1: with Up-Out every sample s >= barrier, and with Down-Out every sample
\* s <= barrier, gets payoff 0, for Call and Put and every strike; a sample
\* exactly at the barrier is knocked.
KnockOutZero ==
    \A i \in Handled : OutKnocked(S[i]) => payoff_vals[i] = 0

\* C1 happens: an Up-Out call sample exactly at the barrier, in the money, is 0.
KnockOutZeroWitness ==
    \E i \in Handled :
        /\ barrier_type_str = "Up-Out"
        /\ option_type = "Call"
        /\ S[i] = barrier
        /\ S[i] > strike
        /\ payoff_vals[i] = 0

\* C2 as stated: with Up-In every sample s >= barrier, and with Down-In every
\* sample s <= barrier, gets payoff 0.
KnockInZero ==
    \A i \in Handled :
        (\/ barrier_type_str = "Up-In" /\ BeyondBarrier("Up", S[i])
         \/ barrier_type_str = "Down-In" /\ BeyondBarrier("Down", S[i]))
        => payoff_vals[i] = 0

\* C2 amended: with Up-In or Down-In no sample is knocked to zero; every
\* sample, on either side of the barrier, gets the plain intrinsic value.
KnockInIntrinsic ==
    \A i \in Handled :
        barrier_type_str \in {"Up-In", "Down-In"} => payoff_vals[i] = Intrinsic(S[i])

\* C2 amended happens: an Up-In call sample beyond the barrier keeps a
\* positive payoff.
KnockInIntrinsicWitness ==
    \E i \in Handled :
        /\ barrier_type_str = "Up-In"
        /\ option_type = "Call"
        /\ S[i] >= barrier
        /\ payoff_vals[i] = S[i] - strike
        /\ payoff_vals[i] > 0

\* C3: a sample at which the knock test does not fire gets max(s - strike, 0)
\* for a Call and max(strike - s, 0) for a Put, whatever the barrier kind; and
\* for Down-Out, Call, strike 100, barrier 90 the payoffs at 85, 95 and 110
\* are 0, 0 and 10.
NotKnockedIntrinsic ==
    /\ \A i \in Handled : ~OutKnocked(S[i]) => payoff_vals[i] = Intrinsic(S[i])
    /\ payoffAt("Down-Out", "Call", 100, 90, 85) = 0
    /\ payoffAt("Down-Out", "Call", 100, 90, 95) = 0
    /\ payoffAt("Down-Out", "Call", 100, 90, 110) = 10

\* C3 happens: one plot holds a sample that is not knocked and out of the
\* money (0) and one that is not knocked and in the money (s - strike).
NotKnockedIntrinsicWitness ==
    \E i, j \in Handled :
        /\ option_type = "Call"
        /\ barrier_type_str = "Up-Out"
        /\ ~OutKnocked(S[i]) /\ S[i] < strike /\ payoff_vals[i] = 0
        /\ ~OutKnocked(S[j]) /\ S[j] > strike /\ payoff_vals[j] = S[j] - strike

\* The barrier lies on the wrong side of spot for the requested kind.
WrongSide ==
    \/ barrier_type_str \in {"Up-Out", "Up-In"} /\ barrier < spot
    \/ barrier_type_str \in {"Down-Out", "Down-In"} /\ barrier > spot

\* The inputs the input contract allows: spot > 0, volatility >= 0.
ValidMarket == spot > 0 /\ vol >= 0

\* C4 as stated, for valid market data and a maturity after the evaluation
\* date: a wrong-side barrier is never rejected (the run does not end in an
\* exception), and every plotted payoff is decided by comparing the sample
\* with the literal barrier level.
WrongSideNeverRejected ==
    (WrongSide /\ ValidMarket /\ maturity > Today) =>
        /\ pc # "raised"
        /\ \A i \in Handled :
              payoff_vals[i] = IF OutKnocked(S[i]) THEN 0 ELSE Intrinsic(S[i])

\* C5 as stated, for a maturity after the evaluation date and a barrier on the
\* conventional side: with spot <= 0 or volatility < 0 the option and its
\* engine are never constructed, and no NPV or Greek is computed or displayed.
InvalidMarketDataRejected ==
    ((spot <= 0 \/ vol < 0) /\ maturity > Today /\ ~WrongSide) =>
        /\ option = <<>>
        /\ ~engine_set
        /\ calls = <<>>
        /\ shown = <<>>

\* C6 as stated, for valid market data and a barrier on the conventional side:
\* a maturity before the evaluation date is rejected when the engine is
\* constructed and gives no pricing result; a maturity equal to the evaluation
\* date is accepted and priced.
InvalidExerciseRejected ==
    (ValidMarket /\ ~WrongSide) =>
        /\ maturity < Today => (~engine_set /\ calls = <<>> /\ shown = <<>>)
        /\ maturity = Today => pc # "raised"

\* C7 as stated, for valid market data and a barrier on the conventional side:
\* with maturity equal to the evaluation date the reported NPV is the
\* payoff-diagram value at spot and the reported gamma, vega, theta and rho
\* are 0.
ZeroMaturityIntrinsic ==
    (maturity = Today /\ ValidMarket /\ ~WrongSide /\ shown # <<>>) =>
        /\ shown[1] = payoffAt(barrier_type_str, option_type, strike, barrier, spot)
        /\ shown[3] = 0 /\ shown[4] = 0 /\ shown[5] = 0 /\ shown[6] = 0

\* The value the script holds for a Greek.
GreekOf(name) ==
    CASE name = "delta" -> delta
      [] name = "gamma" -> gamma
      [] name = "vega" -> vega
      [] name = "theta" -> theta
      [] name = "rho" -> rho

\* The engine method `name` has been called.
Called(name) == \E k \in 1..Len(calls) : calls[k] = name

\* All of lines 50-54 have run.
GreeksAssigned == pc \in {"display", "linspace", "loop", "done"}

\* C9: when the NPV is 0 no Greek method of the engine is ever called and all
\* five reported Greeks are 0; when it is not 0 each reported Greek is the
\* value the engine returned; what is displayed is what was reported.
GreeksGuarded ==
    /\ price = 0 => \A g \in GreekNames : ~Called(g) /\ GreekOf(g) = 0
    /\ (GreeksAssigned /\ price # 0) =>
          \A g \in GreekNames : Called(g) /\ returned[g] = <<GreekOf(g)>>
    /\ shown # <<>> => shown = <<price, delta, gamma, vega, theta, rho>>

\* C9 happens: a zero-price run finished with only NPV called and zeros shown.
GreeksGuardedWitness ==
    /\ pc = "done"
    /\ returned["NPV"] = <<0>>
    /\ calls = <<"NPV">>
    /\ shown = <<0, 0, 0, 0, 0, 0>>

\* C10: the loop appends one value per sample, in grid order, so that
\* payoff_vals[i] is the payoff of S[i] alone (a knocked sample does not zero
\* another one), and at the end payoff_vals is as long as S.
LoopOnePerSample ==
    /\ pc \in {"loop", "done"} =>
          /\ Len(S) = GridSize
          /\ Len(payoff_vals) = it - 1
          /\ it <= Len(S) + 1
          /\ \A i \in Handled :
                payoff_vals[i] = IF OutKnocked(S[i]) THEN 0 ELSE Intrinsic(S[i])
    /\ pc = "done" =>
          /\ Len(payoff_vals) = Len(S)
          /\ plotted = <<[x |-> S, y |-> payoff_vals]>>

\* C10 happens: a finished plot where a knocked sample is followed by a
\* sample that is not knocked and has a positive payoff.
LoopOnePerSampleWitness ==
    /\ pc = "done"
    /\ \E i, j \in Handled :
          /\ i < j
          /\ OutKnocked(S[i]) /\ payoff_vals[i] = 0
          /\ ~OutKnocked(S[j]) /\ payoff_vals[j] > 0

====
